---- MODULE Spec2Model ----
(***************************************************************************)
(* Model of src/src/genetic.rs: the GeneticAlgorithm struct, its budget    *)
(* counter, and the three population operators generate_new_population,    *)
(* crossover and mutate.                                                   *)
(*                                                                         *)
(* Probabilities (f64 in [0,1]) are counted in units of 1/RateDen; a       *)
(* uniform draw from [0,1) is u/RateDen with u in 0..RateDen-1.            *)
(* Real values inside mutate are counted in half units, so that the        *)
(* clamp (f64::max, f64::min) and the truncating cast (as i32) act on       *)
(* values that are not integers.                                           *)
(* A panic (index out of bounds, empty gen_range, arithmetic overflow in a *)
(* build with overflow checks) is the state status = "panicked".           *)
(***************************************************************************)
EXTENDS Integers, Sequences, FiniteSets, TLC

\* ---------------------------------------------------------------- bounds
MaxPop == 4
MaxDim == 3
MaxCells == 8
MaxBox == 4
RateDen == 2
MaxAdj == 3
MaxCalls == 3

\* i32::MAX, the width of simulations_used and max_simulations
MaxI32 == 2147483647

MinI32 == (-MaxI32) - 1

VARIABLES
  mutation_rate,     \* in units of 1/RateDen
  crossover_rate,    \* in units of 1/RateDen
  mutation_span,
  population_size,
  max_simulations,
  dimension,
  lower_bound,
  upper_bound,
  simulations_used,
  status,            \* "ok" | "panicked"
  pc,                \* "constructed" | "gen" | "ready"
  individuals,       \* the local Vec of generate_new_population
  population,        \* the population the caller holds and passes on
  last_op,           \* "new" | "generate" | "crossover" | "mutate" | "update"
  swap_log,          \* last call was crossover: per pair, swap_rv when crossed, 0 when copied
  mutated_log,       \* last call was mutate: per input candidate, its new_action_vector
  calls              \* the arguments given to update_simulations_used so far

config == <<mutation_rate, crossover_rate, mutation_span, population_size,
            max_simulations, dimension, lower_bound, upper_bound>>

vars == <<mutation_rate, crossover_rate, mutation_span, population_size,
          max_simulations, dimension, lower_bound, upper_bound,
          simulations_used, status, pc, individuals, population, last_op,
          swap_log, mutated_log, calls>>

\* ---------------------------------------------------------------- helpers
RECURSIVE Product(_)
\* all sequences s with s[i] \in S[i], for a sequence S of sets
Product(S) ==
  IF S = <<>> THEN {<<>>}
  ELSE {<<h>> \o t : h \in Head(S), t \in Product(Tail(S))}

\* Vec::contains / equality of Arm by action vector
Contains(seq, x) == \E i \in 1..Len(seq) : seq[i] = x

\* the points gen_range can produce for gene j: lower_bound[j]..=upper_bound[j]
GeneRange(j) == lower_bound[j]..upper_bound[j]

\* lines 60-62 panic: an index past the end of a bound vector, or gen_range
\* on an empty range
DrawPanics ==
  \E j \in 1..dimension :
    IF j > Len(lower_bound) \/ j > Len(upper_bound)
      THEN TRUE
      ELSE lower_bound[j] > upper_bound[j]

ValidBounds == ~DrawPanics

\* the candidates one pass of lines 60-62 can produce
BoxSet ==
  IF ValidBounds THEN Product([j \in 1..dimension |-> GeneRange(j)]) ELSE {}

BoxCount == Cardinality(BoxSet)

\* ---------------------------------------------------------------- budget
\* i32 addition as a release build computes it (two's complement wrap)
WrapAdd(a, b) ==
  IF b > 0 /\ a > MaxI32 - b THEN (a - MaxI32 - 1) + (b - MaxI32 - 1)
  ELSE IF b < 0 /\ a < MinI32 - b THEN (a + MaxI32 + 1) + (b + MaxI32 + 1)
  ELSE a + b

Overflows(a, b) ==
  \/ b > 0 /\ a > MaxI32 - b
  \/ b < 0 /\ a < MinI32 - b

budget_reached == simulations_used >= max_simulations

UpdateArgs == {-1, 0, 1, 5, 95, 100, MaxI32}

\* update_simulations_used(n): self.simulations_used += n.  On overflow a
\* build with overflow checks panics, a build without them wraps.
update_simulations_used(n) ==
  /\ status = "ok"
  /\ Len(calls) < MaxCalls
  /\ calls' = Append(calls, n)
  /\ last_op' = "update"
  /\ \/ /\ simulations_used' = WrapAdd(simulations_used, n)
        /\ status' = "ok"
     \/ /\ Overflows(simulations_used, n)
        /\ simulations_used' = simulations_used
        /\ status' = "panicked"
  /\ UNCHANGED <<config, pc, individuals, population, swap_log, mutated_log>>

\* the bound vectors of length n the model draws from: per gene the ranges
\* -1..-1, -1..1, 0..1 and the empty 0..-1
LowerVecs(n) == Product([j \in 1..n |-> {0 - 1, 0}])
UpperVecs(n) == Product([j \in 1..n |-> {0 - 1, 1}])

\* the rates the model draws from: 0, 1/RateDen and 1
Rates == {0, 1, RateDen}

\* ---------------------------------------------------------------- new
\* GeneticAlgorithm::new stores its arguments unchecked, simulations_used = 0
new(mr, cr, ms, ps, mx, d, lb, ub) ==
  /\ mutation_rate = mr
  /\ crossover_rate = cr
  /\ mutation_span = ms
  /\ population_size = ps
  /\ max_simulations = mx
  /\ dimension = d
  /\ lower_bound = lb
  /\ upper_bound = ub
  /\ simulations_used = 0
  /\ status = "ok"
  /\ pc = "constructed"
  /\ individuals = <<>>
  /\ population = <<>>
  /\ last_op = "new"
  /\ swap_log = <<>>
  /\ mutated_log = <<>>
  /\ calls = <<>>

\* ------------------------------------------- generate_new_population
\* lines 66-68: push the candidate unless the Vec already contains it
PushAlways(inds, c) == Append(inds, c)

PushIfNew(inds, c) == IF Contains(inds, c) THEN inds ELSE Append(inds, c)

\* line 59 with `<` taken for `<=` shifted by one: stops one candidate early
LoopTestEarly(inds) == Len(inds) + 1 < population_size

\* line 59: while individuals.len() < self.population_size
LoopTest(inds) == Len(inds) < population_size

\* the call: individuals = Vec::new(), then the first test of the while loop
generate_new_population ==
  /\ status = "ok"
  /\ pc = "constructed"
  /\ individuals' = <<>>
  /\ IF LoopTest(individuals')
       THEN /\ pc' = "gen"
            /\ UNCHANGED <<population, last_op>>
       ELSE /\ pc' = "ready"
            /\ population' = <<>>
            /\ last_op' = "generate"
  /\ UNCHANGED <<config, simulations_used, status, swap_log, mutated_log, calls>>

\* one pass of the while loop (lines 59-69) drawing candidate c, followed by
\* the loop test; the function returns individuals when the test fails
generate_iter(c) ==
  /\ status = "ok"
  /\ pc = "gen"
  /\ ValidBounds
  /\ c \in BoxSet
  /\ individuals' = PushIfNew(individuals, c)
  /\ IF LoopTest(individuals')
       THEN /\ pc' = "gen"
            /\ UNCHANGED <<population, last_op>>
       ELSE /\ pc' = "ready"
            /\ population' = individuals'
            /\ last_op' = "generate"
  /\ UNCHANGED <<config, simulations_used, status, swap_log, mutated_log, calls>>

\* one pass of the while loop that panics while drawing the candidate
generate_panic ==
  /\ status = "ok"
  /\ pc = "gen"
  /\ DrawPanics
  /\ status' = "panicked"
  /\ last_op' = "generate"
  /\ UNCHANGED <<config, simulations_used, pc, individuals, population,
                 swap_log, mutated_log, calls>>

\* ---------------------------------------------------------------- crossover
\* the number of passes of `for i in (0..population_size).step_by(2)`
NPairs == (population_size + 1) \div 2

\* lines 86-90 / 92-96: a[0..j] followed by b[j..=max_dim_index]
\* (0-based, j exclusive), i.e. the first j genes of a, the rest from b
SpliceShifted(a, b, j) == SubSeq(a, 1, j - 1) \o SubSeq(b, j, dimension)

Splice(a, b, j) == SubSeq(a, 1, j) \o SubSeq(b, j + 1, dimension)

\* what one pass of the for loop pushes for pair k (1-based: population[i]
\* is pop[2k-1], population[i+1] is pop[2k]); sw = 0 is the else branch
PairOut(pop, k, sw) ==
  IF sw = 0
    THEN <<pop[2 * k - 1], pop[2 * k]>>
    ELSE <<Splice(pop[2 * k - 1], pop[2 * k], sw),
           Splice(pop[2 * k], pop[2 * k - 1], sw)>>

RECURSIVE CrossoverPop(_, _, _)
\* crossover_pop after the passes k..NPairs
CrossoverPop(pop, sw, k) ==
  IF k > NPairs THEN <<>>
  ELSE PairOut(pop, k, sw[k]) \o CrossoverPop(pop, sw, k + 1)

\* `rand::random::<f64>() < self.crossover_rate` for the draw u/RateDen
DoCrossover(u) == u < crossover_rate

\* a pass panics: population[i] or population[i + 1] is out of range, or
\* the pass takes the crossover branch and gen_range(1..=dimension-1) is empty
CrossoverPanics(pop, u) ==
  \E k \in 1..NPairs :
    \/ 2 * k > Len(pop)
    \/ DoCrossover(u[k]) /\ dimension - 1 < 1

crossover ==
  /\ status = "ok"
  /\ pc = "ready"
  /\ last_op' = "crossover"
  /\ \E u \in [1..NPairs -> 0..(RateDen - 1)] :
       IF CrossoverPanics(population, u)
         THEN /\ status' = "panicked"
              /\ swap_log' = <<>>
              /\ UNCHANGED population
         ELSE \E rv \in [1..NPairs -> 1..(dimension - 1)] :
                /\ swap_log' = [k \in 1..NPairs |->
                                  IF DoCrossover(u[k]) THEN rv[k] ELSE 0]
                /\ population' = CrossoverPop(population, swap_log', 1)
                /\ status' = "ok"
  /\ mutated_log' = <<>>
  /\ UNCHANGED <<config, simulations_used, pc, individuals, calls>>

\* ---------------------------------------------------------------- mutate
\* `as i32` of a value given in half units: truncation toward zero
TruncHalf(x2) == IF x2 >= 0 THEN x2 \div 2 ELSE 0 - ((0 - x2) \div 2)

MaxOf(a, b) == IF a >= b THEN a ELSE b
MinOf(a, b) == IF a <= b THEN a ELSE b

\* lines 133-135 without the clamp
PerturbUnclamped(value, i, a) == TruncHalf(2 * value + a)

\* lines 133-135: (value + adjustment).max(lower).min(upper) as i32, the
\* adjustment a in half units
Perturb(value, i, a) ==
  TruncHalf(MinOf(MaxOf(2 * value + a, 2 * lower_bound[i]), 2 * upper_bound[i]))

\* the samples of Normal(0, mutation_span * (upper - lower)) in half units:
\* only 0 when the standard deviation is 0
Adjustments(i) ==
  IF mutation_span * (upper_bound[i] - lower_bound[i]) = 0
    THEN {0}
    ELSE (0 - MaxAdj)..MaxAdj

\* lines 125-136 for one gene: the draw u/RateDen, the adjustment a
MutGene(value, i, u, a) ==
  IF u < mutation_rate THEN Perturb(value, i, a) ELSE value

GeneOutcomes(value, i) ==
  {MutGene(value, i, u, a) : u \in 0..(RateDen - 1), a \in Adjustments(i)}

\* every new_action_vector lines 122-137 can produce from one individual
MutatedVectors(v) == Product([i \in 1..Len(v) |-> GeneOutcomes(v[i], i)])

RECURSIVE KeepAll(_, _, _)
KeepAll(m, k, seen) ==
  IF k > Len(m) THEN <<>> ELSE <<m[k]>> \o KeepAll(m, k + 1, seen)

RECURSIVE SeenLoop(_, _, _)
\* lines 139-143 over the new vectors m[k..]: push those seen.insert accepts
SeenLoop(m, k, seen) ==
  IF k > Len(m) THEN <<>>
  ELSE IF m[k] \in seen
         THEN SeenLoop(m, k + 1, seen)
         ELSE <<m[k]>> \o SeenLoop(m, k + 1, seen \cup {m[k]})

mutate ==
  /\ status = "ok"
  /\ pc = "ready"
  /\ last_op' = "mutate"
  /\ \E m \in Product([k \in 1..Len(population) |-> MutatedVectors(population[k])]) :
       /\ mutated_log' = m
       /\ population' = SeenLoop(m, 1, {})
  /\ swap_log' = <<>>
  /\ UNCHANGED <<config, simulations_used, status, pc, individuals, calls>>

\* ---------------------------------------------------------------- specifications
\* The population operators, over every configuration within the bounds
\* (new accepts invalid ones too): at most MaxPop candidates of at most
\* MaxDim genes, MaxCells genes in a population, MaxBox points in the box.
InitGA ==
  \E mr \in Rates, cr \in Rates, ps \in 0..MaxPop, d \in 1..MaxDim :
    \E n \in 1..d : \E lb \in LowerVecs(n), ub \in UpperVecs(n) :
      /\ new(mr, cr, 1, ps, 100, d, lb, ub)
      /\ BoxCount <= MaxBox
      /\ ps * d <= MaxCells

NextGA ==
  \/ generate_new_population
  \/ \E c \in BoxSet : generate_iter(c)
  \/ generate_panic
  \/ crossover
  \/ mutate

Spec == InitGA /\ [][NextGA]_vars

\* The same with the sampling of generate_new_population fair: every point
\* of the box keeps being drawn.
AllPoints == UNION {Product([j \in 1..d |-> (0 - 1)..1]) : d \in 1..MaxDim}

NextGen ==
  \/ generate_new_population
  \/ \E c \in AllPoints : generate_iter(c)
  \/ generate_panic

SpecGen ==
  /\ InitGA
  /\ [][NextGen]_vars
  /\ \A c \in AllPoints : WF_vars(generate_iter(c))

\* The budget counter of one instance.
InitBudget ==
  \E mx \in {1, 100} : new(0, RateDen, 1, 2, mx, 2, <<0, 0>>, <<1, 1>>)

NextBudget == \E n \in UpdateArgs : update_simulations_used(n)

SpecBudget == InitBudget /\ [][NextBudget]_vars

\* ---------------------------------------------------------------- properties
Distinct(seq) == \A i, j \in 1..Len(seq) : i # j => seq[i] # seq[j]

InBounds(v) ==
  /\ Len(v) = dimension
  /\ \A i \in 1..dimension : lower_bound[i] <= v[i] /\ v[i] <= upper_bound[i]

Returned == pc = "ready" /\ status = "ok" /\ last_op = "generate"

\* C1: every population generate_new_population returns has exactly
\* population_size candidates, pairwise distinct by action vector, each of
\* length dimension with gene i inside [lower_bound[i], upper_bound[i]].
C1_GenerateContract ==
  Returned =>
    /\ Len(population) = population_size
    /\ Distinct(population)
    /\ \A k \in 1..Len(population) : InBounds(population[k])

C1_Witness ==
  /\ Returned
  /\ population_size >= 3
  /\ dimension >= 2
  /\ BoxCount >= population_size

\* C2: in every population reached by generate_new_population followed by
\* any sequence of crossover and mutate calls, every candidate has length
\* dimension and every gene lies within its bounds.
C2_BoundsInvariant ==
  (pc = "ready" /\ status = "ok") =>
    \A k \in 1..Len(population) : InBounds(population[k])

\* a mutate call with mutation_rate = 1 has produced a gene on a bound of a
\* range that holds more than one value
C2_Witness ==
  /\ last_op = "mutate"
  /\ mutation_rate = RateDen
  /\ \E k \in 1..Len(population) : \E i \in 1..dimension :
       /\ lower_bound[i] < upper_bound[i]
       /\ population[k][i] = upper_bound[i]
  /\ \E k \in 1..Len(population) : \E i \in 1..dimension :
       /\ lower_bound[i] < 0
       /\ population[k][i] = lower_bound[i]

\* C3 (as claimed): crossover returns a population of the input's length for
\* every input of even length with dimension >= 2 (population_size even),
\* whatever that length is relative to population_size.
C3_CrossoverKeepsLength ==
  [][(/\ last_op' = "crossover"
      /\ population_size % 2 = 0
      /\ Len(population) % 2 = 0
      /\ dimension >= 2)
     => (status' = "ok" /\ Len(population') = Len(population))]_vars

\* C4: for each pair (A, B) at positions (2k-1, 2k) that crossover crosses,
\* the two outputs at the same positions are A's first j genes followed by
\* B's remaining ones, and B's first j followed by A's remaining ones, for
\* one j with 1 <= j <= dimension-1; every pair emits exactly two children,
\* in pair order; parents that differ in every position yield children that
\* differ from their corresponding parent.
C4_SinglePointCrossover ==
  [][(last_op' = "crossover" /\ status' = "ok") =>
      /\ Len(population') = 2 * Len(swap_log')
      /\ \A k \in 1..Len(swap_log') :
           LET j == swap_log'[k]
               A == population[2 * k - 1]
               B == population[2 * k]
               childA == population'[2 * k - 1]
               childB == population'[2 * k]
           IN IF j = 0
                THEN childA = A /\ childB = B
                ELSE /\ 1 <= j /\ j <= dimension - 1
                     /\ Len(childA) = dimension /\ Len(childB) = dimension
                     /\ \A i \in 1..dimension :
                          /\ childA[i] = (IF i <= j THEN A[i] ELSE B[i])
                          /\ childB[i] = (IF i <= j THEN B[i] ELSE A[i])
                     /\ (\A i \in 1..dimension : A[i] # B[i])
                          => (childA # A /\ childB # B)]_vars

\* a call crossed both pairs of a population of four, the first pair with
\* parents that differ in every position
C4_Witness ==
  /\ last_op = "crossover"
  /\ status = "ok"
  /\ Len(swap_log) = 2
  /\ swap_log[1] >= 1 /\ swap_log[2] >= 1
  /\ population[1] # population[2]
  /\ population[3] # population[4]

\* C5 (as claimed): with crossover_rate = 0, crossover(pop) returns pop
\* unchanged, for every input population (population_size even,
\* dimension >= 2).
C5_RateZeroIdentity ==
  [][(/\ last_op' = "crossover"
      /\ crossover_rate = 0
      /\ population_size % 2 = 0
      /\ dimension >= 2)
     => (status' = "ok" /\ population' = population)]_vars

\* the positions of m that hold the first occurrence of their vector
FirstIdx(m) == {i \in 1..Len(m) : \A j \in 1..(i - 1) : m[j] # m[i]}

\* m with every vector that equals an earlier one removed
FirstOccurrences(m) ==
  [k \in 1..Cardinality(FirstIdx(m)) |->
     m[CHOOSE i \in FirstIdx(m) : Cardinality({j \in FirstIdx(m) : j < i}) = k - 1]]

\* C6: mutate returns the per-candidate mutated vectors in input order with
\* every vector equal to an earlier one dropped: the output is pairwise
\* distinct, no longer than the input, strictly shorter when two inputs
\* produce the same vector, and with mutation_rate = 0 it is the input with
\* later duplicates removed.
C6_MutateDedup ==
  /\ [](last_op = "mutate" =>
          /\ population = FirstOccurrences(mutated_log)
          /\ Distinct(population)
          /\ Len(population) <= Len(mutated_log)
          /\ (~Distinct(mutated_log) => Len(population) < Len(mutated_log)))
  /\ [][(last_op' = "mutate") =>
          /\ Len(mutated_log') = Len(population)
          /\ (mutation_rate = 0 =>
                /\ mutated_log' = population
                /\ (Distinct(population) => population' = population))]_vars

\* a call whose first and third candidates mutated to the same vector, the
\* second to another one
C6_Witness ==
  /\ last_op = "mutate"
  /\ Len(mutated_log) >= 3
  /\ mutated_log[1] = mutated_log[3]
  /\ mutated_log[1] # mutated_log[2]
  /\ Len(population) < Len(mutated_log)

\* exact integers beyond 32 bits: <<hi, lo>> stands for hi * 2^30 + lo
Base == 2^30

Split(n) == <<n \div Base, n % Base>>

PairAdd(p, n) ==
  LET lo == p[2] + (n % Base)
  IN <<p[1] + (n \div Base) + (lo \div Base), lo % Base>>

RECURSIVE ExactSum(_)
ExactSum(ns) ==
  IF ns = <<>> THEN <<0, 0>>
  ELSE PairAdd(ExactSum(SubSeq(ns, 1, Len(ns) - 1)), ns[Len(ns)])

PairGE(p, q) == p[1] > q[1] \/ (p[1] = q[1] /\ p[2] >= q[2])

\* C7 (as claimed): after update_simulations_used(n1), ..., (nk) the counter
\* equals n1 + ... + nk, and budget_reached() is true exactly when that sum
\* is >= max_simulations.
C7_CounterIsSum ==
  /\ Split(simulations_used) = ExactSum(calls)
  /\ budget_reached <=> PairGE(ExactSum(calls), Split(max_simulations))

\* C8 (as claimed): simulations_used never decreases, and once
\* budget_reached() is true it stays true.
C8_Monotone ==
  [][/\ simulations_used' >= simulations_used
     /\ budget_reached => budget_reached']_vars

\* a configuration that breaks a stated precondition: inverted or short
\* bound vectors, an odd population_size, dimension < 2
PreconditionViolated ==
  \/ ~ValidBounds
  \/ population_size % 2 = 1
  \/ dimension < 2

\* C9 (as claimed): a precondition violation never ends in a crash (it is
\* reported as an invalid-configuration error instead).
C9_ReportedError == PreconditionViolated => status # "panicked"

\* C10: when the box holds at least population_size points the loop of
\* generate_new_population ends and the population is returned; when it
\* holds fewer, no population is ever returned.
C10_Termination ==
  /\ (pc = "gen" /\ status = "ok" /\ ValidBounds /\ BoxCount >= population_size)
       ~> Returned
  /\ [](ValidBounds /\ BoxCount < population_size => pc # "ready")

\* the loop returned after it had to find every point of the box
C10_Witness ==
  /\ Returned
  /\ BoxCount = population_size
  /\ population_size = 4
====
